---- MODULE Spec2Model ----
(***************************************************************************)
(* Model of the price cache/fetcher (src/src/price_data.py), of the risk   *)
(* tiering engine (src/src/portfolio_optimizer.py) and of the evolutionary *)
(* allocator (src/src/evolutionary_optimizer.py).                          *)
(*                                                                         *)
(* A price table is a record [dcol, pcol, rows]: dcol says where the dates *)
(* of the table live, pcol how its price column is named, rows is the      *)
(* sequence of <<date, price>> cells in file/provider order.  A date or a  *)
(* price that does not parse is NaT / NaN.  A normalized series is the     *)
(* sequence of <<date, price>> pairs that _normalize_df returns.           *)
(***************************************************************************)
EXTENDS Integers, Sequences, FiniteSets, TLC

\* ------------------------------------------------------------------ bounds
MaxMinRows == 2        \* min_rows is drawn from 1..MaxMinRows
MaxLookback == 2       \* lookback_days is drawn from 0..MaxLookback

\* ------------------------------------------------------- values of a cell
NaT == 0               \* pd.to_datetime(errors="coerce") on a bad date
NaN == 0               \* pd.to_numeric(errors="coerce") on a bad price
EpochGap == 10         \* real dates lie more than EpochGap rows after the epoch

Tickers == {"A", "B"}

\* str(t).upper()
Upper(t) == IF t = "a" THEN "A" ELSE t

\* the empty DataFrame, pd.DataFrame()
Empty == << >>

\* ---------------------------------------------------------- small helpers
Range(s) == {s[k] : k \in 1..Len(s)}

Dates(s) == {s[k][1] : k \in 1..Len(s)}

RECURSIVE SelectRows(_, _)
\* rows of s whose index is in keep, in order (boolean-mask indexing)
SelectRows(s, keep) ==
  IF s = << >> THEN << >>
  ELSE LET n == Len(s)
           front == SelectRows(SubSeq(s, 1, n - 1), keep)
       IN IF n \in keep THEN Append(front, s[n]) ELSE front

RECURSIVE InsertByDate(_, _)
\* insert row r into the date-sorted sequence s after every row whose date
\* is <= r's date (stable)
InsertByDate(s, r) ==
  IF s = << >> THEN << r >>
  ELSE IF s[Len(s)][1] <= r[1] THEN Append(s, r)
  ELSE Append(InsertByDate(SubSeq(s, 1, Len(s) - 1), r), s[Len(s)])

RECURSIVE SortByDate(_)
\* DataFrame.sort_values("Date"): ascending, every row kept
SortByDate(s) ==
  IF s = << >> THEN << >>
  ELSE InsertByDate(SortByDate(SubSeq(s, 1, Len(s) - 1)), s[Len(s)])

\* ------------------------------------------------------------ _normalize_df
DateCols == {"Date", "alias", "named_index", "none"}
PriceCols == {"Adj Close", "Close", "other", "none"}

\* the Date column after lines 47-54: a table without any date-like column
\* and without a date-named index gets its positional index (0, 1, ...) as
\* Date; _to_datetime_robust reads an integer k as the instant k ns after
\* the epoch, written here as the date k - EpochGap < every real date
ResolveDates(df) ==
  IF df.dcol = "none"
  THEN [k \in 1..Len(df.rows) |-> << (k - 1) - EpochGap, df.rows[k][2] >>]
  ELSE df.rows

\* lines 57-65: the first price-like column name present, if any
HasAdjCol(df) == df.pcol \in {"Adj Close", "Close"}

_normalize_df(df) ==
  IF df.rows = << >> THEN Empty
  ELSE IF ~HasAdjCol(df) THEN Empty
  ELSE LET r == ResolveDates(df)
       IN SortByDate(
            SelectRows(r, {k \in 1..Len(r) : r[k][1] # NaT /\ r[k][2] # NaN}))

\* a normalized series seen again as a table (what to_csv writes)
AsTable(s) == [dcol |-> "Date", pcol |-> "Adj Close", rows |-> s]

\* ------------------------------------------------------------- cache files
\* CACHE_DIRS: 1 is data/prices (primary), 2 is data/cache_prices
CACHE_DIRS == << 1, 2 >>

NoFile == [kind |-> "missing", dcol |-> "Date", pcol |-> "Adj Close", rows |-> << >>]

CsvFile(dc, pc_, rows) == [kind |-> "csv", dcol |-> dc, pcol |-> pc_, rows |-> rows]

\* the custom layout 'Price,<T>' / 'Ticker,<T>' / 'Date,' / data rows
CustomFile(rows) == [kind |-> "custom", dcol |-> "Date", pcol |-> "Adj Close", rows |-> rows]

\* a file pd.read_csv cannot parse
GarbledFile == [kind |-> "garbled", dcol |-> "Date", pcol |-> "Adj Close", rows |-> << >>]

_load_csv_from(f) ==
  CASE f.kind = "missing" -> Empty
    [] f.kind = "garbled" -> Empty
    [] f.kind = "custom" ->
         \* raw.iloc[2:] keeps the 'Date,' marker row, which fails coercion;
         \* with no data row (shape[0] < 4) the plain reader finds only
         \* the non-numeric 'Price' column
         IF Len(f.rows) >= 1
         THEN _normalize_df([dcol |-> "Date", pcol |-> "Adj Close",
                             rows |-> << << NaT, NaN >> >> \o f.rows])
         ELSE Empty
    [] OTHER ->
         \* a two-column file Date + <anything> has <anything> renamed
         IF f.dcol = "Date" /\ f.pcol = "other"
         THEN _normalize_df([dcol |-> "Date", pcol |-> "Adj Close", rows |-> f.rows])
         ELSE _normalize_df([dcol |-> f.dcol, pcol |-> f.pcol, rows |-> f.rows])

\* the directories searched in the other order
_load_csv_secondary_first(fs, t) ==
  IF _load_csv_from(fs[CACHE_DIRS[2]][t]) # Empty
  THEN _load_csv_from(fs[CACHE_DIRS[2]][t])
  ELSE IF _load_csv_from(fs[CACHE_DIRS[1]][t]) # Empty
  THEN _load_csv_from(fs[CACHE_DIRS[1]][t])
  ELSE Empty

\* the first directory whose file gives a non-empty series
_load_csv(fs, t) ==
  IF _load_csv_from(fs[CACHE_DIRS[1]][t]) # Empty
  THEN _load_csv_from(fs[CACHE_DIRS[1]][t])
  ELSE IF _load_csv_from(fs[CACHE_DIRS[2]][t]) # Empty
  THEN _load_csv_from(fs[CACHE_DIRS[2]][t])
  ELSE Empty

\* what to_csv leaves in the primary directory, or nothing to do
SaveAppend(fs, t, df) ==
  LET old == fs[CACHE_DIRS[1]][t]
      prev == IF old.kind = "csv" THEN old.rows ELSE << >>
  IN [fs EXCEPT ![CACHE_DIRS[1]][t] = CsvFile("Date", "Adj Close", prev \o _normalize_df(AsTable(df)))]

_save_csv(fs, t, df) ==
  IF df = Empty THEN fs
  ELSE IF _normalize_df(AsTable(df)) = Empty THEN fs
  ELSE [fs EXCEPT ![CACHE_DIRS[1]][t] =
          CsvFile("Date", "Adj Close", _normalize_df(AsTable(df)))]

\* ---------------------------------------------------------- live sources
\* a provider's answer: "fail" (library missing, network error, empty
\* response) or a table
Fail == [kind |-> "fail", dcol |-> "Date", pcol |-> "Adj Close", rows |-> << >>]

Answer(dc, pc_, rows) == [kind |-> "table", dcol |-> dc, pcol |-> pc_, rows |-> rows]

_download_yf(ans) ==
  IF ans.kind = "fail" \/ ans.rows = << >> THEN Empty
  ELSE _normalize_df([dcol |-> ans.dcol, pcol |-> ans.pcol, rows |-> ans.rows])

\* cutoff is today - _period_to_days(period); df["Date"] raises KeyError
\* (caught) when the table has no Date column
_download_stooq(ans, cutoff) ==
  IF ans.kind = "fail" \/ ans.rows = << >> THEN Empty
  ELSE IF ans.dcol # "Date" THEN Empty
  ELSE _normalize_df([dcol |-> ans.dcol, pcol |-> ans.pcol,
         rows |-> SelectRows(ans.rows,
                    {k \in 1..Len(ans.rows) :
                       ans.rows[k][1] # NaT /\ ans.rows[k][1] >= cutoff})])

\* ------------------------------------------------- get_price_history, body
\* a gate that lets any non-empty series through
ThinOnlyEmpty(df, min_rows) == df = Empty

\* the gate of lines 194, 197, 203, 205
Thin(df, min_rows) == df = Empty \/ Len(df) < min_rows

\* lines 190-198; y holds what each source yields for the ticker now
LiveFirstAlwaysStooq(y, r) ==
  LET df1 == y.yf
      useB == r.allow_stooq_fallback
      df2 == IF useB THEN y.stooq ELSE df1
      useC == Thin(df2, r.min_rows) /\ r.use_cache
      df3 == IF useC THEN y.cache ELSE df2
  IN [df |-> df3,
      calls |-> << "yf" >> \o (IF useB THEN << "stooq" >> ELSE << >>)
                           \o (IF useC THEN << "cache" >> ELSE << >>)]

LiveFirst(y, r) ==
  LET df1 == y.yf
      useB == Thin(df1, r.min_rows) /\ r.allow_stooq_fallback
      df2 == IF useB THEN y.stooq ELSE df1
      useC == Thin(df2, r.min_rows) /\ r.use_cache
      df3 == IF useC THEN y.cache ELSE df2
  IN [df |-> df3,
      calls |-> << "yf" >> \o (IF useB THEN << "stooq" >> ELSE << >>)
                           \o (IF useC THEN << "cache" >> ELSE << >>)]

\* lines 199-208 with the gate of line 203 dropped
CacheFirstAlwaysLive(y, r) ==
  LET df1 == IF r.use_cache THEN y.cache ELSE Empty
      live1 == y.yf
      useB == Thin(live1, r.min_rows) /\ r.allow_stooq_fallback
      live == IF useB THEN y.stooq ELSE live1
      df2 == IF live # Empty THEN live ELSE df1
  IN [df |-> df2,
      calls |-> (IF r.use_cache THEN << "cache" >> ELSE << >>)
                \o << "yf" >>
                \o (IF useB THEN << "stooq" >> ELSE << >>)]

\* lines 199-208
CacheFirst(y, r) ==
  LET df1 == IF r.use_cache THEN y.cache ELSE Empty
      goLive == Thin(df1, r.min_rows)
      live1 == y.yf
      useB == goLive /\ Thin(live1, r.min_rows) /\ r.allow_stooq_fallback
      live == IF useB THEN y.stooq ELSE live1
      df2 == IF goLive /\ live # Empty THEN live ELSE df1
  IN [df |-> df2,
      calls |-> (IF r.use_cache THEN << "cache" >> ELSE << >>)
                \o (IF goLive THEN << "yf" >> ELSE << >>)
                \o (IF useB THEN << "stooq" >> ELSE << >>)]

Chain(y, r) == IF r.prefer_live THEN LiveFirst(y, r) ELSE CacheFirst(y, r)

\* ------------------------------------------------------- get_prices_matrix
RECURSIVE SortedSeq(_)
\* the elements of a finite set of integers, ascending
SortedSeq(S) ==
  IF S = {} THEN << >>
  ELSE LET m == CHOOSE x \in S : \A z \in S : z <= x
       IN Append(SortedSeq(S \ {m}), m)

RECURSIVE FirstOccurrences(_)
\* the keys of a dict filled in list order: each ticker once, at its first place
FirstOccurrences(ts) ==
  IF ts = << >> THEN << >>
  ELSE LET front == FirstOccurrences(SubSeq(ts, 1, Len(ts) - 1))
       IN IF ts[Len(ts)] \in Range(front) THEN front ELSE Append(front, ts[Len(ts)])

HasDupDates(s) == \E j, k \in 1..Len(s) : j # k /\ s[j][1] = s[k][1]

PriceAt(s, d) == s[CHOOSE k \in 1..Len(s) : s[k][1] = d][2]

\* a bundle walk that forgets to skip the empty frames
IncludedAll(bundle, order) == order

\* lines 291-298: the tickers of the bundle that have rows, in dict order
Included(bundle, order) ==
  SelectRows(order, {k \in 1..Len(order) : bundle[order[k]] # Empty})

RECURSIVE CommonDates(_, _)
CommonDates(bundle, cols) ==
  IF Len(cols) = 1 THEN Dates(bundle[cols[1]])
  ELSE CommonDates(bundle, SubSeq(cols, 1, Len(cols) - 1))
         \cap Dates(bundle[cols[Len(cols)]])

RECURSIVE AllDates(_, _)
AllDates(bundle, cols) ==
  IF Len(cols) = 1 THEN Dates(bundle[cols[1]])
  ELSE AllDates(bundle, SubSeq(cols, 1, Len(cols) - 1))
         \cup Dates(bundle[cols[Len(cols)]])

\* a missing cell of the wide table
Missing == NaN

\* an outer join: every date of any series, missing cells left empty
ConcatOuter(bundle, cols) ==
  IF Len(cols) = 1
  THEN [k \in 1..Len(bundle[cols[1]]) |->
          << bundle[cols[1]][k][1], [t \in Range(cols) |-> bundle[cols[1]][k][2]] >>]
  ELSE LET ds == SortedSeq(AllDates(bundle, cols))
       IN [k \in 1..Len(ds) |->
             << ds[k], [t \in Range(cols) |->
                          IF ds[k] \in Dates(bundle[t])
                          THEN PriceAt(bundle[t], ds[k]) ELSE Missing] >>]

\* line 304: pd.concat(series, axis=1, join="inner").sort_index(), for
\* series that concat accepts
ConcatInner(bundle, cols) ==
  IF Len(cols) = 1
  THEN [k \in 1..Len(bundle[cols[1]]) |->
          << bundle[cols[1]][k][1], [t \in Range(cols) |-> bundle[cols[1]][k][2]] >>]
  ELSE LET ds == SortedSeq(CommonDates(bundle, cols))
       IN [k \in 1..Len(ds) |->
             << ds[k], [t \in Range(cols) |-> PriceAt(bundle[t], ds[k])] >>]

\* concat re-indexes every series on the common dates, which pandas
\* refuses for a series with a repeated date
ConcatRaises(bundle, cols) ==
  Len(cols) >= 2 /\ \E k \in 1..Len(cols) : HasDupDates(bundle[cols[k]])

\* DataFrame.head(n), n > 0
HeadRows(rows, n) == SubSeq(rows, 1, IF n < Len(rows) THEN n ELSE Len(rows))

\* lines 307-308: DataFrame.tail(n), n > 0
TailRows(rows, n) ==
  SubSeq(rows, (IF n < Len(rows) THEN Len(rows) - n ELSE 0) + 1, Len(rows))

Lookback(rows, lookback_days) ==
  IF lookback_days > 0 THEN TailRows(rows, lookback_days) ELSE rows

\* ====================================================== portfolio_optimizer
\* ESG scores are plain numbers, volatilities are in hundredths (0.15 is
\* 15), thresholds in ten-thousandths so that a percentile is exact
EsgNaN == -1           \* np.nan in the ESG_Score column
VolNaN == -1           \* a NaN of rets.std()
EsgLowBand == 20
EsgMediumBand == 30
DefaultLowThr == 20
DefaultHighThr == 40
LowPercentile == 33
HighPercentile == 66
Scale == 100

\* the bands of lines 7 and 9 with their upper ends included
categorize_esg_inclusive(esg_score) ==
  IF esg_score <= EsgLowBand THEN "Low"
  ELSE IF esg_score <= EsgMediumBand THEN "Medium"
  ELSE "High"

categorize_esg(esg_score) ==
  IF esg_score < EsgLowBand THEN "Low"
  ELSE IF esg_score < EsgMediumBand THEN "Medium"
  ELSE "High"

\* a comparison with NaN is false
LessEq(v, thr) == v # VolNaN /\ Scale * v <= thr

\* lines 15 and 17 with < for <=
categorize_risk_strict(volatility, thresholds) ==
  IF volatility # VolNaN /\ Scale * volatility < thresholds.low THEN "Low"
  ELSE IF volatility # VolNaN /\ Scale * volatility < thresholds.high THEN "Medium"
  ELSE "High"

categorize_risk(volatility, thresholds) ==
  IF LessEq(volatility, thresholds.low) THEN "Low"
  ELSE IF LessEq(volatility, thresholds.high) THEN "Medium"
  ELSE "High"

RECURSIVE InsertNum(_, _)
InsertNum(s, x) ==
  IF s = << >> THEN << x >>
  ELSE IF s[Len(s)] <= x THEN Append(s, x)
  ELSE Append(InsertNum(SubSeq(s, 1, Len(s) - 1), x), s[Len(s)])

RECURSIVE SortedValues(_, _)
\* vol.dropna().sort_values(), over the tickers S of the Series
SortedValues(vol, S) ==
  IF S = {} THEN << >>
  ELSE LET t == CHOOSE x \in S : TRUE
           rest == SortedValues(vol, S \ {t})
       IN IF vol[t] = VolNaN THEN rest ELSE InsertNum(rest, vol[t])

\* the quantile taken at the next value up instead of interpolated
QuantileHigher(vs, q) ==
  LET pos == (Len(vs) - 1) * q
      lo == pos \div Scale
      f == pos % Scale
  IN IF f = 0 THEN Scale * vs[lo + 1] ELSE Scale * vs[lo + 2]

\* Series.quantile(q / 100), linear interpolation, times Scale
Quantile(vs, q) ==
  LET pos == (Len(vs) - 1) * q
      lo == pos \div Scale
      f == pos % Scale
  IN IF f = 0 THEN Scale * vs[lo + 1]
     ELSE Scale * vs[lo + 1] + f * (vs[lo + 2] - vs[lo + 1])

\* lines 31-35
Thresholds(vol) ==
  LET vols == SortedValues(vol, DOMAIN vol)
  IN [low |-> IF vols # << >> THEN Quantile(vols, LowPercentile)
              ELSE Scale * DefaultLowThr,
      high |-> IF vols # << >> THEN Quantile(vols, HighPercentile)
               ELSE Scale * DefaultHighThr]

\* str.lower()
Lower(x) ==
  CASE x = "Tech" -> "tech"
    [] x = "Energy" -> "energy"
    [] OTHER -> x

\* a tier rule that takes the industry for a condition of Green
TierIndustryStrict(esg_cat, risk_cat, esg_pref, risk_pref, sentiment, industry_label, industry) ==
  IF esg_cat = esg_pref /\ risk_cat = risk_pref
  THEN IF industry_label = "" \/ Lower(industry_label) = Lower(industry)
       THEN "Green" ELSE "Yellow"
  ELSE IF (esg_cat = esg_pref \/ risk_cat = risk_pref) /\ sentiment # "negative"
  THEN "Yellow"
  ELSE "Red"

\* a tier rule that forgets the sentiment
TierNoSentiment(esg_cat, risk_cat, esg_pref, risk_pref, sentiment, industry_label, industry) ==
  IF esg_cat = esg_pref /\ risk_cat = risk_pref THEN "Green"
  ELSE IF esg_cat = esg_pref \/ risk_cat = risk_pref THEN "Yellow"
  ELSE "Red"

\* lines 51-60; `label.lower() in industry.lower()` is a substring test,
\* which on the labels and industries used here is equality
Tier(esg_cat, risk_cat, esg_pref, risk_pref, sentiment, industry_label, industry) ==
  IF esg_cat = esg_pref /\ risk_cat = risk_pref
  THEN IF industry_label = "" \/ Lower(industry_label) = Lower(industry)
       THEN "Green" ELSE "Green"
  ELSE IF (esg_cat = esg_pref \/ risk_cat = risk_pref) /\ sentiment # "negative"
  THEN "Yellow"
  ELSE "Red"

\* sentiment_scores.get(t, "neutral")
SentimentOf(sentiment_scores, t) ==
  IF t \in DOMAIN sentiment_scores THEN sentiment_scores[t] ELSE "neutral"

\* lines 41-72 for one row of esg_df
Recommend(row, vol, a) ==
  LET esg_cat == categorize_esg(row.ESG_Score)
      risk_cat == categorize_risk(vol[row.Ticker], Thresholds(vol))
      sentiment == SentimentOf(a.sentiment_scores, row.Ticker)
  IN [Ticker |-> row.Ticker, ESG_Score |-> row.ESG_Score,
      ESG_Category |-> esg_cat, Risk_Category |-> risk_cat,
      Volatility |-> vol[row.Ticker], Sentiment |-> sentiment,
      Industry |-> row.Industry,
      Tier |-> Tier(esg_cat, risk_cat, a.esg_pref, a.risk_pref, sentiment,
                    a.industry_label, row.Industry)]

RECURSIVE Recommendations(_, _, _)
\* the loop of lines 40-72 over the rows of esg_df
Recommendations(rows, vol, a) ==
  IF rows = << >> THEN << >>
  ELSE LET row == rows[Len(rows)]
           front == Recommendations(SubSeq(rows, 1, Len(rows) - 1), vol, a)
       IN IF row.ESG_Score = EsgNaN \/ row.Ticker \notin DOMAIN vol THEN front
          ELSE Append(front, Recommend(row, vol, a))

NoMatch == [Ticker |-> "No suitable match"]

\* lines 23-83; vol is the Series rets.std() * sqrt(252) of the price matrix
optimize_portfolio(a, vol) ==
  LET recommendations == Recommendations(a.esg_df, vol, a)
  IN IF recommendations = << >> THEN << NoMatch >> ELSE recommendations

\* ------------------------------------------------------------ environment
\* row sequences the providers and the cache files are drawn from
OneRow == << << 2, 1 >> >>
TwoRows == << << 1, 1 >>, << 2, 1 >> >>
NewestFirst == << << 3, 2 >>, << 2, 2 >> >>
RepeatedDate == << << 2, 1 >>, << 2, 2 >> >>
DirtyRows == << << NaT, 1 >>, << 1, NaN >>, << 3, 1 >> >>

\* today - _period_to_days(period), on the date axis of the rows above
Cutoffs == {1, 3}

\* what Yahoo may answer for a ticker
YahooAnswers ==
  {Fail,
   Answer("Date", "Adj Close", OneRow),
   Answer("Date", "Close", TwoRows),
   Answer("Date", "Adj Close", RepeatedDate),
   Answer("alias", "Adj Close", DirtyRows),
   Answer("Date", "none", TwoRows),
   Answer("none", "Close", OneRow)}

\* what Stooq may answer for a ticker (reverse chronological)
StooqAnswers == {Fail, Answer("Date", "Close", NewestFirst)}

YahooYields == {_download_yf(a) : a \in YahooAnswers}

StooqYields == {_download_stooq(a, c) : a \in StooqAnswers, c \in Cutoffs}

\* the two cache directories as found at start: <<primary, secondary>> of
\* ticker A; ticker B has a file in the secondary directory only
CacheOfA ==
  {<< NoFile, NoFile >>,
   << GarbledFile, CsvFile("Date", "Adj Close", TwoRows) >>,
   << CsvFile("Date", "Adj Close", OneRow), CsvFile("Date", "Adj Close", TwoRows) >>,
   << CsvFile("Date", "other", NewestFirst), NoFile >>,
   << CustomFile(RepeatedDate), NoFile >>}

CacheOfB == {<< NoFile, CsvFile("Date", "Adj Close", TwoRows) >>}

\* the ticker lists a caller passes
TickerLists == {<< >>, << "a" >>, << "A", "B" >>, << "B", "a" >>, << "A", "A" >>}

\* ------------------------------------------------------------------ state
VARIABLES
  files,     \* files[d][t]: the file of ticker t in cache directory d
  pc,        \* where the call is: idle, loop, history_returned, returned, raised
  req,       \* the arguments of the running get_price_history call
  i,         \* index of the next ticker of the for loop (line 187)
  out,       \* the dict built by the loop (line 184): ticker -> series
  cur,       \* the last loop iteration: its ticker, what each source
             \* yields for it, the sources consulted, the series kept
  mat,       \* result of get_prices_matrix: lookback_days, columns, rows
  tpc,       \* where the optimize_portfolio call is: off, called, returned
  targs,     \* its arguments, and the volatility Series it computes
  recs,      \* the list it returns
  epc,       \* where the evolutionary_optimize call is: off, called, select,
             \* breed, final, returned, raised
  eargs,     \* its arguments
  population,\* the list of candidates (line 40, line 61)
  generation,\* how many passes of the loop of line 42 are complete
  elites,    \* the elites of the running generation (line 48)
  children,  \* the children of the running generation (line 51)
  result,    \* what the call returns (line 68)
  wpc,       \* each concurrent _save_csv: off, fetched, opened, done
  wdf,       \* the series it is writing
  rpc,       \* the concurrent _load_csv: off, idle, read
  rdf        \* what it returned

fetchVars == << files, pc, req, i, out, cur, mat >>

tierVars == << tpc, targs, recs >>

allocVars == << epc, eargs, population, generation, elites, children, result >>

raceVars == << wpc, wdf, rpc, rdf >>

vars == << files, pc, req, i, out, cur, mat, tpc, targs, recs,
           epc, eargs, population, generation, elites, children, result,
           wpc, wdf, rpc, rdf >>

NoReq == [tickers |-> << >>, prefer_live |-> TRUE, min_rows |-> 1,
          use_cache |-> TRUE, allow_stooq_fallback |-> TRUE]

NoCur == [t |-> "-", y |-> [yf |-> Empty, stooq |-> Empty, cache |-> Empty],
          calls |-> << >>, df |-> Empty, before |-> NoFile, io_error |-> FALSE]

NoMat == [state |-> "none", lookback_days |-> 0, columns |-> << >>, rows |-> << >>]

NoArgs == [esg_df |-> << >>, sentiment_scores |-> [t \in {} |-> "neutral"],
           esg_pref |-> "Low", risk_pref |-> "Low", industry_label |-> "",
           vol |-> [t \in {} |-> VolNaN]]

TierOff == tpc = "off" /\ targs = NoArgs /\ recs = << >>

NoAllocArgs == [tickers |-> << >>, returns |-> [t \in {} |-> 0],
                risks |-> [t \in {} |-> 0], sentiments |-> [t \in {} |-> 0],
                population_size |-> 1, generations |-> 0, elite_pct |-> 100]

NoResult == [allocation |-> [t \in {} |-> 0], fitness |-> [num |-> 0, den |-> 1]]

AllocOff ==
  /\ epc = "off" /\ eargs = NoAllocArgs /\ population = << >>
  /\ generation = 0 /\ elites = << >> /\ children = << >> /\ result = NoResult

\* the processes that may write one ticker's file at the same time
Writers == {1, 2}

RaceOff ==
  /\ wpc = [w \in Writers |-> "off"] /\ wdf = [w \in Writers |-> Empty]
  /\ rpc = "off" /\ rdf = Empty

Init ==
  /\ TierOff
  /\ AllocOff
  /\ RaceOff
  /\ \E fa \in CacheOfA, fb \in CacheOfB :
        files = [d \in Range(CACHE_DIRS) |->
                   [t \in Tickers |-> IF t = "A" THEN fa[d] ELSE fb[d]]]
  /\ pc = "idle"
  /\ req = NoReq
  /\ i = 1
  /\ out = [t \in {} |-> Empty]
  /\ cur = NoCur
  /\ mat = NoMat

\* get_price_history is entered (lines 169-185)
StartCall ==
  /\ pc = "idle"
  /\ \E ts \in TickerLists,
        pl \in BOOLEAN, uc \in BOOLEAN, sf \in BOOLEAN, mr \in 1..MaxMinRows :
        req' = [tickers |-> [k \in 1..Len(ts) |-> Upper(ts[k])],
                prefer_live |-> pl, min_rows |-> mr,
                use_cache |-> uc, allow_stooq_fallback |-> sf]
  /\ pc' = IF req'.tickers = << >> THEN "history_returned" ELSE "loop"
  /\ i' = 1
  /\ out' = [t \in {} |-> Empty]
  /\ UNCHANGED << files, cur, mat, tierVars, allocVars, raceVars >>

\* one iteration of the for loop (lines 187-213): the providers yield yy
\* and sy, the write to the store succeeds or raises OSError
FetchTicker ==
  /\ pc = "loop"
  /\ \E yy \in YahooYields, sy \in StooqYields, io_ok \in BOOLEAN :
        LET t == req.tickers[i]
            y == [yf |-> yy, stooq |-> sy, cache |-> _load_csv(files, t)]
            res == Chain(y, req)
            writes == res.df # Empty /\ _normalize_df(AsTable(res.df)) # Empty
        IN /\ io_ok \/ writes
           /\ cur' = [t |-> t, y |-> y, calls |-> res.calls, df |-> res.df,
                      before |-> files[CACHE_DIRS[1]][t], io_error |-> ~io_ok]
           /\ IF io_ok
              THEN /\ files' = _save_csv(files, t, res.df)
                   /\ out' = [u \in DOMAIN out \cup {t} |->
                                IF u = t THEN res.df ELSE out[u]]
                   /\ i' = i + 1
                   /\ pc' = IF i = Len(req.tickers) THEN "history_returned" ELSE "loop"
              ELSE /\ pc' = "raised"
                   /\ UNCHANGED << files, out, i >>
  /\ UNCHANGED << req, mat, tierVars, allocVars, raceVars >>

\* get_prices_matrix after its get_price_history call returned (lines
\* 291-310); the locals of the loop are gone
BuildMatrix ==
  /\ pc = "history_returned"
  /\ \E lb \in 0..MaxLookback :
        LET cols == Included(out, FirstOccurrences(req.tickers))
        IN IF cols = << >>
           THEN /\ mat' = [state |-> "empty", lookback_days |-> lb,
                           columns |-> << >>, rows |-> << >>]
                /\ pc' = "returned"
           ELSE IF ConcatRaises(out, cols)
           THEN /\ mat' = [state |-> "raised", lookback_days |-> lb,
                           columns |-> << >>, rows |-> << >>]
                /\ pc' = "raised"
           ELSE /\ mat' = [state |-> "ok", lookback_days |-> lb, columns |-> cols,
                           rows |-> Lookback(ConcatInner(out, cols), lb)]
                /\ pc' = "returned"
  /\ cur' = NoCur
  /\ UNCHANGED << files, req, i, out, tierVars, allocVars, raceVars >>

Next == StartCall \/ FetchTicker \/ BuildMatrix

Spec == Init /\ [][Next]_vars

\* ------------------------------------------------- the tiering engine alone
Categories == {"Low", "Medium", "High"}

EsgRow(t, score, industry) == [Ticker |-> t, ESG_Score |-> score, Industry |-> industry]

\* the ESG tables a caller passes: tickers A, B, C, or no row at all
EsgTables ==
  {<< >>} \cup
  {<< EsgRow("A", sa, "Tech"), EsgRow("B", sb, "Energy"), EsgRow("C", 35, "Energy") >> :
     sa \in {EsgNaN, 15, 25, 35}, sb \in {20, 25, 30}}

\* the volatility Series: one entry per column of the price matrix
VolSeries ==
  {[t \in {} |-> VolNaN],
   "A" :> 15 @@ "B" :> 30 @@ "C" :> 50,
   "A" :> 30 @@ "B" :> 15 @@ "C" :> 50,
   "A" :> 50 @@ "B" :> 30 @@ "C" :> 15,
   "A" :> 30 @@ "B" :> 30,
   "A" :> 15 @@ "B" :> VolNaN}

SentimentMaps ==
  {[t \in {} |-> "neutral"], "B" :> "negative"} \cup
  {"A" :> sa : sa \in {"positive", "neutral", "negative"}} \cup
  {"A" :> sa @@ "B" :> "negative" : sa \in {"positive", "neutral", "negative"}}

IndustryLabels == {"", "tech", "energy"}

FetcherOff ==
  /\ files = [d \in Range(CACHE_DIRS) |-> [t \in Tickers |-> NoFile]]
  /\ pc = "off" /\ req = NoReq /\ i = 1
  /\ out = [t \in {} |-> Empty] /\ cur = NoCur /\ mat = NoMat

TierInit ==
  /\ FetcherOff
  /\ AllocOff
  /\ RaceOff
  /\ tpc = "called"
  /\ targs \in [esg_df : EsgTables, sentiment_scores : SentimentMaps,
                 esg_pref : Categories, risk_pref : Categories,
                 industry_label : IndustryLabels, vol : VolSeries]
  /\ recs = << >>

\* optimize_portfolio runs to its return (lines 23-83)
Optimize ==
  /\ tpc = "called"
  /\ recs' = optimize_portfolio(targs, targs.vol)
  /\ tpc' = "returned"
  /\ UNCHANGED << fetchVars, targs, allocVars, raceVars >>

TierNext == Optimize

TierSpec == TierInit /\ [][TierNext]_vars

\* ==================================================== evolutionary_optimize
\* A candidate is the vector of its weights counted in units of their sum:
\* <<1, 3>> stands for the weights 1/4 and 3/4, a vector of zeros for
\* weights that are all zero.  Vectors are kept in lowest terms.
RECURSIVE SumSeq(_)
SumSeq(v) == IF v = << >> THEN 0 ELSE Head(v) + SumSeq(Tail(v))

RECURSIVE Gcd(_, _)
Gcd(a, b) == IF b = 0 THEN a ELSE Gcd(b, a % b)

RECURSIVE GcdSeq(_)
GcdSeq(v) == IF v = << >> THEN 0 ELSE Gcd(Head(v), GcdSeq(Tail(v)))

LowestTerms(v) ==
  LET g == GcdSeq(v) IN IF g = 0 THEN v ELSE [k \in DOMAIN v |-> v[k] \div g]

\* the unit the entries of v are counted in
Den(v) == IF SumSeq(v) = 0 THEN 1 ELSE SumSeq(v)

Max(a, b) == IF a >= b THEN a ELSE b

\* lines 25-27: np.clip(weights, 0, None), then division by the sum plus
\* 1e-9; when everything was clipped the quotient 0 / 1e-9 is all zeros
normalize(weights) ==
  LowestTerms([k \in DOMAIN weights |-> IF weights[k] < 0 THEN 0 ELSE weights[k]])

\* what one unit of weight on ticker t adds to the fitness, in tenths (line
\* 37); sentiments.get(t, 0) at line 34
Score(a, t) ==
  10 * a.returns[t] - 5 * a.risks[t]
    + 3 * (IF t \in DOMAIN a.sentiments THEN a.sentiments[t] ELSE 0)

\* lines 30-37, as the fraction num / den
fitness(a, weights) ==
  [num |-> SumSeq([k \in DOMAIN weights |-> weights[k] * Score(a, a.tickers[k])]),
   den |-> Den(weights)]

Less(f, g) == f.num * g.den < g.num * f.den

scores(a, pop) == [k \in 1..Len(pop) |-> fitness(a, pop[k])]

RECURSIVE ArgsortUpTo(_, _)
\* the first m indices in ascending order of score, equal scores in index
\* order (np.argsort sorts lists this short by insertion)
ArgsortUpTo(sc, m) ==
  IF m = 0 THEN << >>
  ELSE LET front == ArgsortUpTo(sc, m - 1)
           p == Cardinality({j \in 1..Len(front) : ~Less(sc[m], sc[front[j]])})
       IN SubSeq(front, 1, p) \o << m >> \o SubSeq(front, p + 1, Len(front))

argsort(sc) == ArgsortUpTo(sc, Len(sc))

\* line 44, elite_frac given in percent: int() drops the fraction
elite_count(a) == Max(1, (a.elite_pct * a.population_size) \div 100)

\* lines 47-48 with the lowest scores taken instead of the highest
LowestScored(a, pop) ==
  LET order == argsort(scores(a, pop))
      m == IF elite_count(a) < Len(order) THEN elite_count(a) ELSE Len(order)
  IN [k \in 1..m |-> pop[order[k]]]

\* lines 47-48 with the first candidates taken, whatever their scores
Unranked(a, pop) ==
  LET m == IF elite_count(a) < Len(pop) THEN elite_count(a) ELSE Len(pop)
  IN SubSeq(pop, 1, m)

\* lines 47-48 with the slice [:-elite_count] for [-elite_count:]
AllButElites(a, pop) ==
  LET order == argsort(scores(a, pop))
      m == Max(0, Len(order) - elite_count(a))
  IN [k \in 1..m |-> pop[order[k]]]

\* lines 47-48: the slice [-elite_count:] of the ascending order
Elites(a, pop) ==
  LET order == argsort(scores(a, pop))
      from == Max(1, Len(order) - elite_count(a) + 1)
  IN [k \in 1..(Len(order) - from + 1) |-> pop[order[from + k - 1]]]

\* line 55: the genes of p1 up to cut, then those of p2, over one unit
Crossover(p1, p2, cut) ==
  [num |-> [k \in 1..Len(p1) |->
              IF k <= cut THEN p1[k] * Den(p2) ELSE p2[k] * Den(p1)],
   den |-> Den(p1) * Den(p2)]

\* lines 56-58: no mutation, a draw that takes gene idx below zero, or a
\* draw that adds half a unit to it
Noises == {"none", "below", "above"}

Mutate(child, idx, noise) ==
  CASE noise = "none" -> child.num
    [] noise = "below" -> [child.num EXCEPT ![idx] = -1]
    [] noise = "above" ->
         [k \in DOMAIN child.num |-> 2 * child.num[k] + (IF k = idx THEN 1 ELSE 0)]

\* a draw of normal(0, 0.1) (line 58) of size 0.5 at most
InReach(child, idx, noise) ==
  noise = "below" => 2 * child.num[idx] <= child.den

\* line 64 with the first candidate taken instead of the best
FirstCandidate(a, pop) == 1

\* line 64: np.argmax gives the first index of the highest score
argmax(a, pop) ==
  LET sc == scores(a, pop)
  IN CHOOSE k \in 1..Len(pop) :
       /\ \A j \in 1..Len(pop) : ~Less(sc[k], sc[j])
       /\ \A j \in 1..(k - 1) : Less(sc[j], sc[k])

\* round(float(w), 3) in thousandths (line 67); the 1e-9 of normalize
\* leaves a weight just under its fraction, so a tie goes down
Round3(num, den) ==
  LET q == (1000 * num) \div den
      r == (1000 * num) % den
  IN IF 2 * r <= den THEN q ELSE q + 1

\* max(scores), line 68
max_score(a, pop) ==
  LET sc == scores(a, pop)
  IN sc[CHOOSE k \in 1..Len(pop) : \A j \in 1..Len(pop) : ~Less(sc[k], sc[j])]

\* lines 63-68
Outcome(a, pop) ==
  LET best == pop[argmax(a, pop)]
  IN [allocation |-> [t \in Range(a.tickers) |->
                        LET k == CHOOSE j \in 1..Len(a.tickers) : a.tickers[j] = t
                        IN Round3(best[k], Den(best))],
      fitness |-> max_score(a, pop)]

\* ---------------------------------------------- the allocator's environment
\* the key order of the returns dict
AllocTickers == {<< "A" >>, << "A", "B" >>}

\* returns and risks in hundredths, sentiments -1, 0, +1 in the same unit
ScoreTables(ts) ==
  IF Len(ts) = 1
  THEN {[returns |-> "A" :> 5, risks |-> "A" :> 2, sentiments |-> [t \in {} |-> 0]],
        [returns |-> "A" :> 5, risks |-> "A" :> 2, sentiments |-> "A" :> 100]}
  ELSE {[returns |-> "A" :> 5 @@ "B" :> 5, risks |-> "A" :> 2 @@ "B" :> 2,
         sentiments |-> [t \in {} |-> 0]],
        [returns |-> "A" :> 5 @@ "B" :> 8, risks |-> "A" :> 2 @@ "B" :> 2,
         sentiments |-> "B" :> 100],
        [returns |-> "A" :> 8 @@ "B" :> 5, risks |-> "A" :> 2 @@ "B" :> 4,
         sentiments |-> "A" :> 100 @@ "B" :> (0 - 100)]}

PopulationSizes == {1, 2, 3, 4}

GenerationCounts == {0, 1, 2}

\* elite_frac in percent; 20 is the default of line 5
ElitePercents == {20, 50, 67, 100, 150}

AllocInputs ==
  {[tickers |-> ts, returns |-> st.returns, risks |-> st.risks,
    sentiments |-> st.sentiments, population_size |-> ps,
    generations |-> g, elite_pct |-> ef] :
     ts \in AllocTickers, st \in UNION {ScoreTables(u) : u \in AllocTickers},
     ps \in PopulationSizes, g \in GenerationCounts, ef \in ElitePercents}

\* what normalize(np.random.rand(n)) can be: every weight positive
InitialCandidates(n) == {LowestTerms(v) : v \in [1..n -> {1, 3}]}

\* --------------------------------------------------- the allocator's steps
EAInit ==
  /\ FetcherOff
  /\ TierOff
  /\ RaceOff
  /\ epc = "called"
  /\ eargs \in {a \in AllocInputs : DOMAIN a.returns = Range(a.tickers)}
  /\ population = << >>
  /\ generation = 0
  /\ elites = << >>
  /\ children = << >>
  /\ result = NoResult

\* line 40
Initialise ==
  /\ epc = "called"
  /\ population' \in [1..eargs.population_size ->
                         InitialCandidates(Len(eargs.tickers))]
  /\ epc' = IF eargs.generations = 0 THEN "final" ELSE "select"
  /\ UNCHANGED << fetchVars, tierVars, raceVars, eargs, generation, elites, children, result >>

\* lines 43-51
Select ==
  /\ epc = "select"
  /\ elites' = Elites(eargs, population)
  /\ children' = << >>
  /\ epc' = "breed"
  /\ UNCHANGED << fetchVars, tierVars, raceVars, eargs, population, generation, result >>

MoreChildren == Len(children) < eargs.population_size - elite_count(eargs)

\* one pass of the while loop, lines 52-59
Breed ==
  /\ epc = "breed" /\ MoreChildren
  /\ Len(elites) >= 2 /\ Len(eargs.tickers) >= 2
  /\ \E e1 \in 1..Len(elites), e2 \in 1..Len(elites),
        cut \in 1..(Len(eargs.tickers) - 1),
        idx \in 1..Len(eargs.tickers), noise \in Noises :
        LET child == Crossover(elites[e1], elites[e2], cut)
        IN /\ e1 # e2
           /\ InReach(child, idx, noise)
           /\ children' = Append(children, normalize(Mutate(child, idx, noise)))
  /\ UNCHANGED << fetchVars, tierVars, raceVars, epc, eargs, population, generation,
                  elites, result >>

\* random.sample(elites, 2) with one elite (line 53) and
\* random.randint(1, 0) with one ticker (line 54) raise ValueError
BreedRaises ==
  /\ epc = "breed" /\ MoreChildren
  /\ Len(elites) < 2 \/ Len(eargs.tickers) < 2
  /\ epc' = "raised"
  /\ UNCHANGED << fetchVars, tierVars, raceVars, eargs, population, generation,
                  elites, children, result >>

\* line 61 and the loop test of line 42
NextGeneration ==
  /\ epc = "breed" /\ ~MoreChildren
  /\ population' = elites \o children
  /\ generation' = generation + 1
  /\ epc' = IF generation + 1 = eargs.generations THEN "final" ELSE "select"
  /\ UNCHANGED << fetchVars, tierVars, raceVars, eargs, elites, children, result >>

\* lines 63-68
Finish ==
  /\ epc = "final"
  /\ result' = Outcome(eargs, population)
  /\ epc' = "returned"
  /\ UNCHANGED << fetchVars, tierVars, raceVars, eargs, population, generation,
                  elites, children >>

EANext ==
  \/ Initialise
  \/ Select
  \/ Breed
  \/ BreedRaises
  \/ NextGeneration
  \/ Finish

EASpec == EAInit /\ [][EANext]_vars

\* ============================================= concurrent calls on one file
\* Two get_price_history calls have each fetched a series for ticker A and
\* run _save_csv (lines 109-116) on the same data/prices/A.csv while a
\* third call reads it with _load_csv (lines 102-107).  There is no lock.
\* to_csv opens the file for writing, which empties it, and its buffered
\* text reaches the file when the handle is closed, written from the start
\* of the file; rows stand for the stretches of bytes.
ThreeRows == << << 1, 2 >>, << 2, 2 >>, << 3, 2 >> >>

\* the normalized series a call may have fetched
RaceSeries == {OneRow, TwoRows, ThreeRows}

\* the primary file as the calls find it
RaceInitialFiles == {NoFile, CsvFile("Date", "Adj Close", NewestFirst)}

RaceInit ==
  /\ TierOff
  /\ AllocOff
  /\ \E f \in RaceInitialFiles :
        files = [d \in Range(CACHE_DIRS) |->
                   [t \in Tickers |->
                      IF d = CACHE_DIRS[1] /\ t = "A" THEN f ELSE NoFile]]
  /\ pc = "off" /\ req = NoReq /\ i = 1
  /\ out = [t \in {} |-> Empty] /\ cur = NoCur /\ mat = NoMat
  /\ wpc = [w \in Writers |-> "fetched"]
  /\ wdf \in [Writers -> RaceSeries]
  /\ rpc = "idle"
  /\ rdf = Empty

\* bytes written at the start of a file replace what is there and leave
\* what lies beyond them
WriteAtStart(old, new) ==
  [k \in 1..Max(Len(old), Len(new)) |-> IF k <= Len(new) THEN new[k] ELSE old[k]]

\* line 116, the open of to_csv: the file is created or emptied
OpenForWrite(w) ==
  /\ wpc[w] = "fetched"
  /\ files' = [files EXCEPT ![CACHE_DIRS[1]]["A"] = CsvFile("Date", "Adj Close", << >>)]
  /\ wpc' = [wpc EXCEPT ![w] = "opened"]
  /\ UNCHANGED << pc, req, i, out, cur, mat, tierVars, allocVars, wdf, rpc, rdf >>

\* line 116, the close of to_csv: the text is written out
FlushAndClose(w) ==
  /\ wpc[w] = "opened"
  /\ files' = [files EXCEPT ![CACHE_DIRS[1]]["A"] =
                 CsvFile("Date", "Adj Close",
                         WriteAtStart(files[CACHE_DIRS[1]]["A"].rows,
                                      _normalize_df(AsTable(wdf[w]))))]
  /\ wpc' = [wpc EXCEPT ![w] = "done"]
  /\ UNCHANGED << pc, req, i, out, cur, mat, tierVars, allocVars, wdf, rpc, rdf >>

\* lines 102-107 run by the reading call
ReadStore ==
  /\ rpc = "idle"
  /\ rdf' = _load_csv(files, "A")
  /\ rpc' = "read"
  /\ UNCHANGED << fetchVars, tierVars, allocVars, wpc, wdf >>

RaceNext ==
  \/ \E w \in Writers : OpenForWrite(w)
  \/ \E w \in Writers : FlushAndClose(w)
  \/ ReadStore

RaceSpec == RaceInit /\ [][RaceNext]_vars

\* ================================================================ claims
\* the last loop iteration finished without raising
Iterated == cur.t # "-" /\ ~cur.io_error

Enabled(src) ==
  \/ src = "yf"
  \/ src = "stooq" /\ req.allow_stooq_fallback
  \/ src = "cache" /\ req.use_cache

Consulted(src) == src \in Range(cur.calls)

Reaches(df) == Len(df) >= req.min_rows

\* C1: in live-first mode the sources are consulted in the order Yahoo,
\* Stooq, cache; once Yahoo yields min_rows rows neither Stooq nor the
\* cache is consulted, and once Stooq yields min_rows rows the cache is not
C1_LiveFirstOrder ==
  (cur.t # "-" /\ req.prefer_live) =>
    /\ cur.calls \in {<< "yf" >>, << "yf", "stooq" >>, << "yf", "cache" >>,
                      << "yf", "stooq", "cache" >>}
    /\ Reaches(cur.y.yf) => cur.calls = << "yf" >>
    /\ (Consulted("stooq") /\ Reaches(cur.y.stooq)) => ~Consulted("cache")

C1_Witness ==
  /\ cur.t # "-" /\ req.prefer_live /\ req.min_rows = 2
  /\ req.use_cache /\ req.allow_stooq_fallback
  /\ Reaches(cur.y.yf) /\ cur.y.stooq # Empty /\ cur.y.cache # Empty
  /\ cur.calls = << "yf" >>

\* C2: in both modes, if some enabled source yields at least min_rows rows
\* for the ticker, the series returned for it has at least min_rows rows
C2_MinRowsGate ==
  Iterated =>
    ((\E src \in {"yf", "stooq", "cache"} : Enabled(src) /\ Reaches(cur.y[src]))
       => Reaches(out[cur.t]))

C2_Witness ==
  /\ Iterated /\ req.min_rows = 2 /\ req.allow_stooq_fallback
  /\ Len(cur.y.yf) = 1 /\ Reaches(cur.y.stooq)
  /\ out[cur.t] = cur.y.stooq

Returned == pc \in {"history_returned", "returned"}

\* C3: once get_price_history has returned a non-empty series for t, the
\* primary store file of t holds exactly the normalized snapshot of that
\* series, and no other row
C3_StoreIsSnapshot ==
  Returned =>
    \A t \in DOMAIN out :
      out[t] # Empty =>
        /\ files[CACHE_DIRS[1]][t] =
             CsvFile("Date", "Adj Close", _normalize_df(AsTable(out[t])))
        /\ Range(files[CACHE_DIRS[1]][t].rows) \subseteq Range(out[t])

C3_Witness ==
  /\ pc = "history_returned" /\ Iterated /\ out[cur.t] # Empty
  /\ cur.before.kind = "csv"
  /\ ~(Range(cur.before.rows) \subseteq Range(out[cur.t]))

AllFailed ==
  cur.t # "-" /\ cur.y.yf = Empty /\ cur.y.stooq = Empty /\ cur.y.cache = Empty

\* C4 as stated: a ticker for which every source failed is absent from the
\* returned map and from the matrix columns
C4_AbsentFromMap ==
  /\ AllFailed => (~cur.io_error /\ cur.t \notin DOMAIN out)
  /\ mat.state = "ok" =>
       \A t \in DOMAIN out : out[t] = Empty => t \notin Range(mat.columns)

\* C4 amended: a ticker for which every source failed is a key of the
\* returned map with an empty series, handling it raises nothing, and it
\* is no column of a matrix get_prices_matrix returns
C4_EmptyInMapAbsentFromMatrix ==
  /\ AllFailed => (~cur.io_error /\ cur.t \in DOMAIN out /\ out[cur.t] = Empty)
  /\ mat.state \in {"ok", "empty"} =>
       \A t \in DOMAIN out : out[t] = Empty => t \notin Range(mat.columns)

C4_Witness ==
  /\ pc = "returned" /\ mat.state = "ok"
  /\ req.use_cache /\ req.allow_stooq_fallback
  /\ \E t \in DOMAIN out : out[t] = Empty

\* C5: no failure of a source, of a cache file or of the write to the store
\* propagates out of get_price_history
C5_NothingPropagates == ~cur.io_error

StrictlyAscending(s) == \A k \in 1..(Len(s) - 1) : s[k][1] < s[k + 1][1]

\* C6: every series returned by get_price_history or written to the store
\* has strictly ascending dates, no date twice
C6_StrictlyAscendingDates ==
  /\ \A t \in DOMAIN out :
       /\ StrictlyAscending(out[t])
       /\ (Returned /\ out[t] # Empty) =>
            StrictlyAscending(files[CACHE_DIRS[1]][t].rows)
  /\ \A src \in {"yf", "stooq", "cache"} : StrictlyAscending(cur.y[src])

MatrixDates == {mat.rows[k][1] : k \in 1..Len(mat.rows)}

\* C7: every row of the matrix has its date in the series of every included
\* ticker and a value in every column; the row dates lie in the
\* intersection of the date sets of the tickers with a non-empty series
C7_InnerAligned ==
  mat.state = "ok" =>
    /\ \A k \in 1..Len(mat.rows) :
         /\ DOMAIN mat.rows[k][2] = Range(mat.columns)
         /\ \A t \in Range(mat.columns) :
              /\ mat.rows[k][2][t] # Missing
              /\ \E j \in 1..Len(out[t]) :
                   out[t][j] = << mat.rows[k][1], mat.rows[k][2][t] >>
    /\ \A t \in DOMAIN out : out[t] # Empty => MatrixDates \subseteq Dates(out[t])
    /\ Range(mat.columns) = {t \in DOMAIN out : out[t] # Empty}

C7_Witness ==
  /\ mat.state = "ok" /\ Len(mat.columns) = 2 /\ mat.rows # << >>
  /\ Dates(out["A"]) # Dates(out["B"])

Aligned == ConcatInner(out, Included(out, FirstOccurrences(req.tickers)))

\* C8: for lookback_days > 0 the matrix is the last lookback_days rows of
\* the alignment, or all of them when there are fewer; never more than
\* lookback_days rows, the latest dates, ascending
C8_MostRecentRows ==
  (mat.state = "ok" /\ mat.lookback_days > 0) =>
    LET n == Len(Aligned)
        lb == mat.lookback_days
    IN /\ n >= lb => mat.rows = SubSeq(Aligned, n - lb + 1, n)
       /\ n < lb => mat.rows = Aligned
       /\ Len(mat.rows) <= lb
       /\ \A k \in 1..(Len(mat.rows) - 1) : mat.rows[k][1] <= mat.rows[k + 1][1]
       /\ \A k \in 1..(n - Len(mat.rows)) :
            \A d \in MatrixDates : Aligned[k][1] <= d

C8_Witness ==
  /\ mat.state = "ok" /\ mat.lookback_days = 1
  /\ Len(Aligned) = 2 /\ Len(mat.columns) = 2

\* --------------------------------------------------------- tiering claims
IsRecommendation(rec) == rec # NoMatch

EsgMatches(rec) == rec.ESG_Category = targs.esg_pref

RiskMatches(rec) == rec.Risk_Category = targs.risk_pref

\* C9: Green iff both categories equal their preferences; otherwise Yellow
\* iff exactly one does and the sentiment is not negative; otherwise Red
C9_TierTable ==
  tpc = "returned" =>
    \A k \in 1..Len(recs) :
      IsRecommendation(recs[k]) =>
        LET rec == recs[k]
            both == EsgMatches(rec) /\ RiskMatches(rec)
            one == EsgMatches(rec) # RiskMatches(rec)
        IN /\ rec.Tier \in {"Green", "Yellow", "Red"}
           /\ rec.Tier = "Green" <=> both
           /\ rec.Tier = "Yellow" <=> (one /\ rec.Sentiment # "negative")
           /\ rec.Tier = "Red" <=> (~both /\ ~(one /\ rec.Sentiment # "negative"))

C9_Witness ==
  /\ tpc = "returned" /\ Len(recs) = 3
  /\ recs[1].Tier = "Red" /\ recs[1].Sentiment = "negative"
  /\ EsgMatches(recs[1]) /\ ~RiskMatches(recs[1])
  /\ recs[1].Risk_Category = "Medium"
  /\ recs[2].Tier = "Yellow" /\ recs[3].Tier = "Green"

Tiers(rs) == [k \in 1..Len(rs) |-> IF IsRecommendation(rs[k]) THEN rs[k].Tier ELSE "-"]

\* C10: with the same ESG table, sentiments and preferences, every industry
\* label gives every ticker the same tier
C10_IndustryNotATierCondition ==
  tpc = "returned" =>
    \A label \in IndustryLabels :
      Tiers(optimize_portfolio([targs EXCEPT !.industry_label = label], targs.vol))
        = Tiers(recs)

C10_Witness ==
  /\ tpc = "returned" /\ targs.industry_label = "energy"
  /\ \E k \in 1..Len(recs) :
       /\ IsRecommendation(recs[k])
       /\ recs[k].Tier = "Green" /\ recs[k].Industry = "Tech"

\* the tickers of esg_df with an ESG score and a volatility value
Eligible ==
  {k \in 1..Len(targs.esg_df) :
     /\ targs.esg_df[k].ESG_Score # EsgNaN
     /\ targs.esg_df[k].Ticker \in DOMAIN targs.vol
     /\ targs.vol[targs.esg_df[k].Ticker] # VolNaN}

\* C11: a ticker gets a Recommendation only if its ESG score is present and
\* it has a volatility value; without a score, without price data or with a
\* volatility that cannot be computed it gets none
C11_OnlyScoredWithVolatility ==
  tpc = "returned" =>
    \A k \in 1..Len(recs) :
      IsRecommendation(recs[k]) =>
        /\ recs[k].ESG_Score # EsgNaN
        /\ recs[k].Ticker \in DOMAIN targs.vol
        /\ recs[k].Volatility # VolNaN

\* C12: the list returned is never empty; it is the one sentinel record
\* when no ticker has both an ESG score and a volatility, and holds only
\* real recommendations otherwise
C12_SentinelIffNoCandidate ==
  tpc = "returned" =>
    /\ recs # << >>
    /\ Eligible = {} => recs = << NoMatch >>
    /\ Eligible # {} => \A k \in 1..Len(recs) : IsRecommendation(recs[k])

\* --------------------------------------------- claims on the fallback chain
\* C18: in cache-first mode the cache, when enabled, is consulted before any
\* live source; a cached series of at least min_rows rows stops the chain;
\* otherwise Yahoo and then (if Yahoo is thin and Stooq is allowed) Stooq are
\* tried, and the live result replaces the cached one only when non-empty
C18_CacheFirstOrder ==
  (cur.t # "-" /\ ~req.prefer_live) =>
    LET cached == IF req.use_cache THEN cur.y.cache ELSE Empty
        live == IF Consulted("stooq") THEN cur.y.stooq ELSE cur.y.yf
    IN /\ cur.calls \in {<< "cache" >>, << "cache", "yf" >>,
                         << "cache", "yf", "stooq" >>,
                         << "yf" >>, << "yf", "stooq" >>}
       /\ req.use_cache <=> Consulted("cache")
       /\ Reaches(cached) <=> ~Consulted("yf")
       /\ Consulted("stooq") <=>
            (Consulted("yf") /\ ~Reaches(cur.y.yf) /\ req.allow_stooq_fallback)
       /\ cur.df = IF Consulted("yf") /\ live # Empty THEN live ELSE cached

C18_Witness ==
  /\ cur.t # "-" /\ ~req.prefer_live /\ req.use_cache /\ req.min_rows = 2
  /\ cur.calls = << "cache", "yf", "stooq" >>
  /\ cur.y.cache # Empty /\ cur.y.yf = Empty /\ cur.y.stooq = Empty
  /\ cur.df = cur.y.cache

\* C19: when a consulted source yielded a non-empty series for the ticker,
\* the series returned for it is non-empty and is written to the store; the
\* returned series is empty only if every consulted source yielded nothing
C19_ThinDataFallback ==
  Iterated =>
    ((\E src \in {"yf", "stooq", "cache"} :
         Consulted(src) /\ cur.y[src] # Empty)
       => /\ cur.df # Empty
          /\ out[cur.t] = cur.df
          /\ files[CACHE_DIRS[1]][cur.t].kind = "csv")

\* C20: no series a source yields, and no series returned, has a row whose
\* date was made up from a positional index; a table without a date-like or
\* price-like column yields the empty series
C20_NoMadeUpDates ==
  /\ \A src \in {"yf", "stooq", "cache"} :
       \A k \in 1..Len(cur.y[src]) : cur.y[src][k][1] > NaT
  /\ \A t \in DOMAIN out : \A k \in 1..Len(out[t]) : out[t][k][1] > NaT

\* ------------------------------------------------- claims on the allocator
\* C13: every candidate of the population, at initialization and after every
\* generation, has no negative weight, and its weights sum to 1
C13_WeightsSumToOne ==
  \A k \in 1..Len(population) :
    /\ \A j \in 1..Len(population[k]) : population[k][j] >= 0
    /\ SumSeq(population[k]) > 0

\* C14: with a single ticker the call never raises, whatever the population
\* size and the number of generations
C14_SingleTickerNeverRaises ==
  Len(eargs.tickers) = 1 => epc # "raised"

Count(s, v) == Cardinality({k \in 1..Len(s) : s[k] = v})

\* the elites are candidates of pop, and every candidate of pop that beats
\* some elite is itself among the elites
HighestOf(el, pop) ==
  /\ \A v \in Range(el) : Count(el, v) <= Count(pop, v)
  /\ \A v \in Range(pop) :
       (\E e \in Range(el) : Less(fitness(eargs, e), fitness(eargs, v)))
         => Count(el, v) = Count(pop, v)

\* the elites chosen for the running generation are those of population
Choosing == epc \in {"breed", "raised"}

\* a generation has ended and no new selection was made since
Carried == generation >= 1 /\ epc \in {"select", "final", "returned"}

\* C15 as stated: the number of elites of every generation is
\* max(1, ceil(eliteFraction * populationSize)), the elites are the
\* highest-fitness candidates and are all in the next population
C15_EliteCountCeil ==
  /\ Choosing =>
       /\ Len(elites) =
            Max(1, (eargs.elite_pct * eargs.population_size + 99) \div 100)
       /\ HighestOf(elites, population)
  /\ Carried => \A v \in Range(elites) : Count(elites, v) <= Count(population, v)

\* C15 amended: the number of elites of every generation is
\* max(1, floor(eliteFraction * populationSize)), the elites are the
\* highest-fitness candidates of the population, and every population
\* formed at the end of a generation holds each of them unchanged
C15_EliteCountFloor ==
  /\ Choosing =>
       /\ eargs.elite_pct <= 100 =>
            Len(elites) =
              Max(1, (eargs.elite_pct * eargs.population_size) \div 100)
       /\ HighestOf(elites, population)
  /\ Carried => \A v \in Range(elites) : Count(elites, v) <= Count(population, v)

C15_Witness ==
  /\ Carried /\ eargs.population_size = 4 /\ eargs.elite_pct = 67
  /\ Len(elites) = 2 /\ Len(children) = 2
  /\ SubSeq(population, 1, 2) = elites
  /\ Less(fitness(eargs, elites[1]), fitness(eargs, elites[2]))
  /\ \E k \in 1..2 : Less(fitness(eargs, elites[2]), fitness(eargs, children[k]))

\* C17: the call returns a candidate of the final population that no other
\* candidate beats: its fitness, its weights to the nearest thousandth, one
\* entry per key of the returns dict
C17_ReturnsBest ==
  epc = "returned" =>
    /\ DOMAIN result.allocation = DOMAIN eargs.returns
    /\ \E k \in 1..Len(population) :
         LET best == population[k]
             f == fitness(eargs, best)
         IN /\ \A j \in 1..Len(population) :
                 ~Less(f, fitness(eargs, population[j]))
            /\ result.fitness.num * f.den = f.num * result.fitness.den
            /\ \A p \in 1..Len(eargs.tickers) :
                 LET d == 1000 * best[p]
                            - result.allocation[eargs.tickers[p]] * Den(best)
                 IN 2 * d <= Den(best) /\ 2 * (0 - d) <= Den(best)

C17_Witness ==
  /\ epc = "returned" /\ generation = 2
  /\ \E k \in 2..Len(population) :
       /\ \A j \in 1..Len(population) :
            j # k => Less(fitness(eargs, population[j]), fitness(eargs, population[k]))
       /\ \E p \in 1..Len(eargs.tickers) :
            /\ result.allocation[eargs.tickers[p]] * Den(population[k])
                 # 1000 * population[k][p]
            /\ result.allocation[eargs.tickers[p]] \notin {0, 1000}

\* ------------------------------------------ claims on the categorizations
\* C21: the ESG category of a recommendation depends on its own score only:
\* Low below 20, Medium from 20 up to but not including 30, High from 30
C21_EsgBands ==
  tpc = "returned" =>
    \A k \in 1..Len(recs) :
      IsRecommendation(recs[k]) =>
        LET s == recs[k].ESG_Score
            c == recs[k].ESG_Category
        IN /\ c \in {"Low", "Medium", "High"}
           /\ c = "Low" <=> s < 20
           /\ c = "Medium" <=> (20 <= s /\ s < 30)
           /\ c = "High" <=> s >= 30

C21_Witness ==
  /\ tpc = "returned"
  /\ \E j, k \in 1..Len(recs) :
       /\ IsRecommendation(recs[j]) /\ IsRecommendation(recs[k])
       /\ recs[j].ESG_Score = 15 /\ recs[j].ESG_Category = "Low"
       /\ recs[k].ESG_Score = 20 /\ recs[k].ESG_Category = "Medium"
  /\ \E k \in 1..Len(recs) :
       IsRecommendation(recs[k]) /\ recs[k].ESG_Score = 35
         /\ recs[k].ESG_Category = "High"

\* the volatilities of the call that are numbers
NumericVols == {targs.vol[t] : t \in {u \in DOMAIN targs.vol : targs.vol[u] # VolNaN}}

\* C22: a numeric volatility is Low iff it is at most the low threshold,
\* Medium iff above it and at most the high threshold, High iff above the
\* high threshold; the thresholds are those of this call's volatilities
\* (0.249 and 0.364 for 0.15, 0.30, 0.50) and 0.20 / 0.40 when there are none
C22_RiskBands ==
  tpc = "returned" =>
    LET thr == Thresholds(targs.vol)
    IN /\ \A k \in 1..Len(recs) :
            (IsRecommendation(recs[k]) /\ recs[k].Volatility # VolNaN) =>
              LET v == 100 * recs[k].Volatility
                  c == recs[k].Risk_Category
              IN /\ c = "Low" <=> v <= thr.low
                 /\ c = "Medium" <=> (thr.low < v /\ v <= thr.high)
                 /\ c = "High" <=> v > thr.high
       /\ NumericVols = {} => thr = [low |-> 2000, high |-> 4000]
       /\ NumericVols = {15, 30, 50} => thr = [low |-> 2490, high |-> 3640]
       /\ NumericVols # {} =>
            \A x \in {thr.low, thr.high} :
              /\ \E v \in NumericVols : 100 * v <= x
              /\ \E v \in NumericVols : x <= 100 * v

C22_Witness ==
  /\ tpc = "returned"
  /\ \E k \in 1..Len(recs) :
       /\ IsRecommendation(recs[k]) /\ recs[k].Volatility # VolNaN
       /\ 100 * recs[k].Volatility = Thresholds(targs.vol).low
       /\ recs[k].Risk_Category = "Low"

\* C23: with three distinct volatilities the lowest is Low, the middle
\* Medium, the highest High; with scores 15, 25, 35 on volatilities 0.15,
\* 0.30, 0.50, preference Low/Low and neutral sentiment the tiers are Green,
\* Red, Red
C23_ThreeTickerScenario ==
  (tpc = "returned" /\ Cardinality(DOMAIN targs.vol) = 3
     /\ Cardinality(NumericVols) = 3) =>
    /\ \A k \in 1..Len(recs) :
         IsRecommendation(recs[k]) =>
           LET below == {v \in NumericVols : v < recs[k].Volatility}
           IN recs[k].Risk_Category =
                (CASE Cardinality(below) = 0 -> "Low"
                   [] Cardinality(below) = 1 -> "Medium"
                   [] OTHER -> "High")
    /\ (/\ [k \in 1..Len(targs.esg_df) |-> targs.esg_df[k].ESG_Score] = << 15, 25, 35 >>
        /\ [k \in 1..3 |-> targs.vol[targs.esg_df[k].Ticker]] = << 15, 30, 50 >>
        /\ targs.esg_pref = "Low" /\ targs.risk_pref = "Low"
        /\ \A k \in 1..3 :
             SentimentOf(targs.sentiment_scores, targs.esg_df[k].Ticker) = "neutral")
       => /\ Len(recs) = 3
          /\ [k \in 1..3 |-> recs[k].ESG_Category] = << "Low", "Medium", "High" >>
          /\ [k \in 1..3 |-> recs[k].Risk_Category] = << "Low", "Medium", "High" >>
          /\ [k \in 1..3 |-> recs[k].Tier] = << "Green", "Red", "Red" >>

C23_Witness ==
  /\ tpc = "returned" /\ Len(recs) = 3
  /\ targs.esg_pref = "Low" /\ targs.risk_pref = "Low"
  /\ [k \in 1..3 |-> recs[k].ESG_Score] = << 15, 25, 35 >>
  /\ [k \in 1..3 |-> recs[k].Volatility] = << 15, 30, 50 >>
  /\ [k \in 1..3 |-> recs[k].Sentiment] = << "neutral", "neutral", "neutral" >>
  /\ [k \in 1..3 |-> recs[k].Tier] = << "Green", "Red", "Red" >>

\* C24: with two tickers or more the loop of line 42 makes exactly
\* `generations` passes and the call ends by returning; each pass breeds
\* exactly population_size - elite_count children
C24_ExactlyGenerationsPasses ==
  Len(eargs.tickers) >= 2 =>
    /\ epc # "raised"
    /\ generation <= eargs.generations
    /\ epc \in {"final", "returned"} => generation = eargs.generations
    /\ Carried =>
         Len(children) = Max(0, eargs.population_size - elite_count(eargs))

\* C26: with two tickers or more, whenever a child has to be bred there are
\* at least two elites to draw its parents from
C26_TwoParentsAvailable ==
  (Len(eargs.tickers) >= 2 /\ epc = "breed" /\ MoreChildren) => Len(elites) >= 2

\* C27: no step lowers the highest fitness of the population, the fitness
\* returned is at least the highest of the population it was taken from,
\* and breeding leaves the elites and the population as they are
C27_ElitismIsMonotone ==
  [][/\ population # << >> =>
          ~Less(max_score(eargs, population'), max_score(eargs, population))
     /\ epc' = "returned" =>
          ~Less(result'.fitness, max_score(eargs, population))
     /\ (epc = "breed" /\ epc' = "breed") =>
          (elites' = elites /\ population' = population)]_vars

C27_Witness ==
  /\ Carried /\ generation = 2 /\ Len(children) >= 1
  /\ \E k \in 1..Len(children) :
       \A e \in 1..Len(elites) :
         Less(fitness(eargs, elites[e]), fitness(eargs, children[k]))
  /\ \E k \in 1..Len(children) :
       \A e \in 1..Len(elites) :
         Less(fitness(eargs, children[k]), fitness(eargs, elites[e]))

\* C30: once initialised the population holds exactly population_size
\* candidates of n weights each, also when elite_frac is 1 or more
C30_PopulationShape ==
  epc \notin {"off", "called"} =>
    /\ Len(population) = eargs.population_size
    /\ \A k \in 1..Len(population) : Len(population[k]) = Len(eargs.tickers)

C30_Witness ==
  /\ Carried /\ eargs.elite_pct > 100 /\ eargs.population_size = 3
  /\ generation = 2
  /\ Len(elites) = 3 /\ children = << >> /\ Len(population) = 3

\* ------------------------------------------------------ claims on the store
\* what _load_csv gave for the ticker before the last iteration wrote
StoredBefore ==
  IF _load_csv_from(cur.before) # Empty THEN _load_csv_from(cur.before)
  ELSE _load_csv_from(files[CACHE_DIRS[2]][cur.t])

\* C28: an iteration never leaves a ticker that had min_rows stored rows
\* with fewer than min_rows, and writes nothing for a ticker whose returned
\* series is empty
C28_StoreNeverDegrades ==
  Iterated =>
    /\ Reaches(StoredBefore) => Reaches(_load_csv(files, cur.t))
    /\ out[cur.t] = Empty => files[CACHE_DIRS[1]][cur.t] = cur.before

C25_LastWriterWins ==
  /\ (\A w \in Writers : wpc[w] = "done") =>
       \E w \in Writers :
         files[CACHE_DIRS[1]]["A"] = CsvFile("Date", "Adj Close", wdf[w])
  /\ rpc = "read" =>
       \/ rdf = Empty
       \/ \E w \in Writers : rdf = wdf[w]
       \/ \E f \in RaceInitialFiles : rdf = _load_csv_from(f)

====
